---- MODULE Spec2Model ----
(***************************************************************************)
(* antichonk.py: the scan of a directory tree into File records, the two   *)
(* orderings of the records, and the StateMachine that walks the ordered   *)
(* catalog, prompting for one of d, D, s, S, ? per record.                 *)
(*                                                                         *)
(* The program is recursive (transition -> action -> advance ->            *)
(* transition ...), so the model keeps the Python call stack: `stack` is   *)
(* the sequence of the line numbers of the suspended call sites, `pc` is   *)
(* the position of the running frame.  The filesystem is changed by the    *)
(* program alone.                                                          *)
(***************************************************************************)
EXTENDS Integers, Sequences, FiniteSets, TLC

VARIABLES
    fs,                     \* the paths that exist on disk
    stat,                   \* file path -> [size, age]: os.path.getsize, st_ctime
    order_by,               \* sys.argv[2]
    sessions,               \* the number of StateMachine objects constructed
    File_files,             \* File.files, the class-level list of scanned records
    files,                  \* StateMachine.files, the ordered catalog
    current_file,           \* StateMachine.current_file
    directories_to_ignore,  \* StateMachine.directories_to_ignore
    pc,                     \* position of the running frame
    stack,                  \* call sites (line numbers) of the suspended frames
    rendered,               \* paths handed to print_as_tree, in order
    tree,                   \* the lines of the tree printed for the token awaited,
                            \* each with its path; empty once the token is read
    inputs,                 \* tokens read by input(), with the record on display
    raised                  \* the exception that ended the process, or "none"

vars == <<fs, stat, order_by, sessions, tree, File_files, files, current_file,
          directories_to_ignore, pc, stack, rendered, inputs, raised>>

\* ------------------------------------------------------------------ bounds
MaxSize == 1
MaxAge == 1
MaxReprompts == 1
MaxSessions == 2

\* ------------------------------------------------------- the filesystem
\* A path is the sequence of its components; Root is sys.argv[1].
Root == <<"r">>
DirX == <<"r", "x">>
DirSub == <<"r", "x", "sub">>
DirZ == <<"r", "z">>
FileA == <<"r", "x", "a">>
FileB == <<"r", "x", "T">>
FileC == <<"r", "x", "sub", "c">>
FileE == <<"r", "z", "e">>
FileH == <<"r", "z", ".h">>

AllFiles == {FileA, FileB, FileC, FileE}
AllDirs == {Root, DirX, DirSub, DirZ}

\* The order in which the directory listings hand out the entries.
Listing == <<DirX, FileA, FileB, DirSub, FileC, DirZ, FileE, FileH>>

\* Names that begin with a dot: glob's * and ** do not match them.
DotNames == {".h"}

IsPrefix(d, p) == Len(d) <= Len(p) /\ SubSeq(p, 1, Len(d)) = d

Ancestors(p) == {SubSeq(p, 1, k) : k \in 1..(Len(p) - 1)}

\* os.path.dirname of an absolute, normalised path
dirname(p) == SubSeq(p, 1, Len(p) - 1)

\* os.path.exists
exists(p) == p \in fs

\* os.path.isdir / Path.is_dir
isdir(p) == p \in fs /\ p \in AllDirs

\* A variant of remove that also takes the directory of the file away
remove_dir_too(disk, path) == disk \ {path, dirname(path)}

\* os.remove(path): the disk without the file
remove(disk, path) == disk \ {path}

\* A variant of rmtree that removes the directory and its own entries but
\* nothing deeper
rmtree_shallow(disk, directory) ==
    {q \in disk : q # directory /\ dirname(q) # directory}

\* shutil.rmtree(directory): the disk without the directory and all below it
rmtree(disk, directory) == {q \in disk : ~IsPrefix(directory, q)}

\* glob.glob(directory + "/**/*", recursive=True): every entry at any depth
\* below the directory, none with a dot name on the way.
glob(directory) ==
    SelectSeq(Listing,
              LAMBDA p : /\ p \in fs
                         /\ IsPrefix(directory, p) /\ p # directory
                         /\ \A k \in (Len(directory) + 1)..Len(p) : p[k] \notin DotNames)

\* ------------------------------------------------------------ File records
NoFile == [path |-> <<>>, directory |-> <<>>, size_in_bytes |-> 0, age_in_days |-> 0]

\* File.__init__
File(path, size_in_bytes, age_in_days) ==
    [path |-> path, directory |-> dirname(path),
     size_in_bytes |-> size_in_bytes, age_in_days |-> age_in_days]

\* The loop of main: one File per globbed path that is not a directory.
scan(directory) ==
    LET paths == SelectSeq(glob(directory), LAMBDA p : ~isdir(p))
    IN  [i \in 1..Len(paths) |-> File(paths[i], stat[paths[i]].size, stat[paths[i]].age)]

\* sorted(seq, key=..., reverse=...): a stable sort; with reverse the keys
\* descend and equal keys still keep their order in seq.
RECURSIVE sorted(_, _, _)
sorted(seq, key, reverse) ==
    IF seq = <<>> THEN <<>>
    ELSE LET n == Len(seq)
             x == seq[n]
             s == sorted(SubSeq(seq, 1, n - 1), key, reverse)
             after == {i \in 1..Len(s) :
                          IF reverse THEN key[s[i]] < key[x] ELSE key[s[i]] > key[x]}
             at == IF after = {} THEN Len(s) + 1
                   ELSE CHOOSE i \in after : \A j \in after : i <= j
         IN  SubSeq(s, 1, at - 1) \o <<x>> \o SubSeq(s, at, Len(s))

Range(seq) == {seq[i] : i \in 1..Len(seq)}

\* File.files_by_size
files_by_size(fl) ==
    sorted(fl, [r \in Range(fl) |-> r.size_in_bytes], FALSE)

\* A variant of files_by_age that sorts ascending and reverses the result
files_by_age_reversed(fl) ==
    LET up == sorted(fl, [r \in Range(fl) |-> r.age_in_days], FALSE)
    IN  [i \in 1..Len(up) |-> up[Len(up) + 1 - i]]

\* A variant of files_by_age without reverse=True
files_by_age_ascending(fl) ==
    sorted(fl, [r \in Range(fl) |-> r.age_in_days], FALSE)

\* File.files_by_age
files_by_age(fl) ==
    sorted(fl, [r \in Range(fl) |-> r.age_in_days], TRUE)

\* --------------------------------------------------------- DisplayablePath
\* The glyphs, in ASCII: |-- for the middle child, +-- for the last child,
\* |   for the bar.  The class gives the blank the name ..._middle and the
\* bar the name ..._last.
display_filename_prefix_middle == "|--"
display_filename_prefix_last == "+--"
display_parent_prefix_middle == "    "
display_parent_prefix_last == "|   "

\* bcolors.OKGREEN and bcolors.ENDC
OKGREEN == "ESC[92m"
ENDC == "ESC[0m"

\* str.lower on the names of the disk
lower == [n \in {".h", "T", "a", "c", "e", "r", "sub", "x", "z"} |->
             IF n = "T" THEN "t" ELSE n]

\* The place of a string in the order of str: by code point, character by
\* character ("." < "T" < "a" < ... < "z").
StrRank == [n \in {".h", "T", "a", "c", "e", "r", "sub", "t", "x", "z"} |->
               CASE n = ".h" -> 1 [] n = "T" -> 2 [] n = "a" -> 3 [] n = "c" -> 4
                 [] n = "e" -> 5 [] n = "r" -> 6 [] n = "sub" -> 7 [] n = "t" -> 8
                 [] n = "x" -> 9 [] n = "z" -> 10]

\* Path.name
name(p) == p[Len(p)]

\* A variant of the sort key without lower()
sortkey_case_sensitive(p) == StrRank[name(p)]

\* key=lambda s: str(s).lower(), for the entries of one directory: their
\* strings differ in the name only.
sortkey(p) == StrRank[lower[name(p)]]

\* Path.iterdir: the entries of the directory itself, dot names included
iterdir(directory) ==
    SelectSeq(Listing, LAMBDA p : p \in fs /\ Len(p) > 1 /\ dirname(p) = directory)

\* DisplayablePath.__init__; parent_path is <<>> for None, else <<parent>>
DisplayablePath(path, child_to_highlight, parent_path, is_last) ==
    [path |-> path, parent |-> parent_path, child_to_highlight |-> child_to_highlight,
     is_last |-> is_last,
     depth |-> IF parent_path # <<>> THEN parent_path[1].depth + 1 ELSE 0]

\* DisplayablePath.make_tree: the root, then for each child in sorted order
\* its own tree (a directory) or its node (a file).  children_from walks the
\* children from the count-th on.
RECURSIVE make_tree(_, _, _, _)
RECURSIVE children_from(_, _, _, _)
children_from(children, count, child_to_highlight, displayable_root) ==
    IF count > Len(children) THEN <<>>
    ELSE LET path == children[count]
             is_last == (count = Len(children))
         IN  (IF isdir(path)
              THEN make_tree(path, child_to_highlight, <<displayable_root>>, is_last)
              ELSE <<DisplayablePath(path, child_to_highlight, <<displayable_root>>, is_last)>>)
             \o children_from(children, count + 1, child_to_highlight, displayable_root)

make_tree(root, child_to_highlight, parent, is_last) ==
    LET displayable_root == DisplayablePath(root, child_to_highlight, parent, is_last)
        listed == iterdir(root)
        children == sorted(listed, [p \in Range(listed) |-> sortkey(p)], FALSE)
    IN  <<displayable_root>> \o children_from(children, 1, child_to_highlight, displayable_root)

\* DisplayablePath.displayname (the second definition, lines 80-86, is the
\* one in force), as the pieces of the string
displayname(node) ==
    IF isdir(node.path) THEN <<name(node.path), "/">>
    ELSE IF node.path = node.child_to_highlight THEN <<OKGREEN, name(node.path), ENDC>>
    ELSE <<name(node.path)>>

\* A variant of parent_parts with the two glyphs exchanged
RECURSIVE parent_parts_exchanged(_)
parent_parts_exchanged(parent) ==
    IF parent = <<>> \/ parent[1].parent = <<>> THEN <<>>
    ELSE parent_parts_exchanged(parent[1].parent)
            \o <<IF parent[1].is_last THEN display_parent_prefix_last
                                      ELSE display_parent_prefix_middle>>

\* The while loop of displayable, lines 99-104, reversed as line 106 does:
\* one glyph per ancestor that is not the root of the tree, outermost first.
RECURSIVE parent_parts(_)
parent_parts(parent) ==
    IF parent = <<>> \/ parent[1].parent = <<>> THEN <<>>
    ELSE parent_parts(parent[1].parent)
            \o <<IF parent[1].is_last THEN display_parent_prefix_middle
                                      ELSE display_parent_prefix_last>>

\* A variant of displayable that draws the bar for the ancestors that are
\* last and the blank for the others
displayable_bars_exchanged(node) ==
    IF node.parent = <<>> THEN displayname(node)
    ELSE parent_parts_exchanged(node.parent)
            \o <<IF node.is_last THEN display_filename_prefix_last
                                 ELSE display_filename_prefix_middle, " ">>
            \o displayname(node)

\* DisplayablePath.displayable: the line, as the pieces of the string
displayable(node) ==
    IF node.parent = <<>> THEN displayname(node)
    ELSE parent_parts(node.parent)
            \o <<IF node.is_last THEN display_filename_prefix_last
                                 ELSE display_filename_prefix_middle, " ">>
            \o displayname(node)

\* File.print_as_tree: the lines printed after "Absolute path: ...".  Of a
\* directory that is gone only the line of the root is printed, before
\* iterdir raises.
print_as_tree(file) ==
    LET paths == make_tree(file.directory, file.path, <<>>, FALSE)
    IN  [i \in 1..Len(paths) |-> [path |-> paths[i].path, line |-> displayable(paths[i])]]

\* ------------------------------------------------------------ StateMachine
Resolving == {"d", "D", "s", "S"}

\* The keys of StateMachine.actions
ActionKeys == {"d", "D", "s", "S", "?"}

\* What input() can return: the keys, and a token that is no key
Tokens == ActionKeys \cup {"dd"}

\* list.index: the first position holding the value
index(seq, x) == CHOOSE i \in 1..Len(seq) : seq[i] = x /\ \A j \in 1..(i - 1) : seq[j] # x

Reprompts == Cardinality({i \in 1..Len(inputs) : inputs[i].token \notin Resolving})

\* Return from the running frame with the call sites stk suspended below it.
\* Only the two calls of advance in transition (lines 127, 130) have code
\* after them; every other call site returns at once to its own caller, and
\* the return of the outermost transition to main ends the process.
RECURSIVE Return(_)
Return(stk) ==
    IF stk = <<>> THEN [pc |-> "done", stack |-> <<>>]
    ELSE LET top == stk[Len(stk)]
             rest == SubSeq(stk, 1, Len(stk) - 1)
         IN  CASE top = 127 -> [pc |-> "l128", stack |-> rest]
               [] top = 130 -> [pc |-> "l132", stack |-> rest]
               [] OTHER -> Return(rest)

\* A variant of advance that starts over at the first record after the last
advance_wrapping(stk) ==
    LET current_file_index == index(files, current_file)
        next_file_index == current_file_index + 1
    IN  /\ current_file' = IF next_file_index > Len(files) THEN files[1]
                                                            ELSE files[next_file_index]
        /\ pc' = "transition"
        /\ stack' = Append(stk, 162)

\* StateMachine.advance, called with the call sites stk suspended
advance(stk) ==
    LET current_file_index == index(files, current_file)
        next_file_index == current_file_index + 1
    IN  IF next_file_index > Len(files)
        THEN LET r == Return(stk)
             IN  /\ pc' = r.pc
                 /\ stack' = r.stack
                 /\ current_file' = current_file
        ELSE /\ current_file' = files[next_file_index]
             /\ pc' = "transition"
             /\ stack' = Append(stk, 162)

\* ------------------------------------------------------------------ Init
\* The process starts on a disk holding some of the files, and the
\* directories above them, with sys.argv[2] one of the two orderings.  The
\* attribute that the chosen ordering reads takes every value of its range;
\* the other one is 0 for every file.
Init ==
    /\ order_by \in {"age", "size"}
    /\ \E present \in SUBSET AllFiles :
          /\ fs = {Root} \cup present \cup UNION {Ancestors(p) : p \in present}
          /\ stat \in [present -> [size : 0..MaxSize, age : 0..MaxAge]]
          /\ \A p \in present : IF order_by = "age" THEN stat[p].size = 0
                                                     ELSE stat[p].age = 0
    /\ sessions = 0
    /\ File_files = <<>>
    /\ files = <<>>
    /\ current_file = NoFile
    /\ directories_to_ignore = <<>>
    /\ pc = "main"
    /\ stack = <<>>
    /\ rendered = <<>>
    /\ tree = <<>>
    /\ inputs = <<>>
    /\ raised = "none"

\* ---------------------------------------------------------------- actions
\* main: scan, order, construct the StateMachine and call transition.
\* files[0] of an empty list raises IndexError.
Main ==
    /\ pc = "main"
    /\ LET scanned == scan(Root)
           ordered == IF order_by = "age" THEN files_by_age(scanned)
                      ELSE files_by_size(scanned)
       IN  /\ File_files' = scanned
           /\ files' = ordered
           /\ IF ordered = <<>>
              THEN /\ pc' = "crashed"
                   /\ raised' = "IndexError"
                   /\ UNCHANGED <<current_file, stack, sessions>>
              ELSE /\ current_file' = ordered[1]
                   /\ sessions' = sessions + 1
                   /\ pc' = "transition"
                   /\ stack' = <<261>>
                   /\ UNCHANGED raised
    /\ UNCHANGED <<fs, stat, order_by, tree, directories_to_ignore, rendered, inputs>>

\* transition, lines 125-127
TransitionExists ==
    /\ pc = "transition"
    /\ IF ~exists(current_file.path)
       THEN advance(Append(stack, 127))
       ELSE /\ pc' = "l128"
            /\ UNCHANGED <<stack, current_file>>
    /\ UNCHANGED <<fs, stat, order_by, sessions, tree, File_files, files, directories_to_ignore,
                   rendered, inputs, raised>>

\* transition, lines 128-130
TransitionIgnored ==
    /\ pc = "l128"
    /\ IF current_file.directory \in Range(directories_to_ignore)
       THEN advance(Append(stack, 130))
       ELSE /\ pc' = "l132"
            /\ UNCHANGED <<stack, current_file>>
    /\ UNCHANGED <<fs, stat, order_by, sessions, tree, File_files, files, directories_to_ignore,
                   rendered, inputs, raised>>

\* prompt: print_as_tree prints the path and the line of the root, then
\* make_tree lists the directory (iterdir raises FileNotFoundError when it is
\* gone); then the process blocks in input().
Prompt ==
    /\ pc = "l132"
    /\ rendered' = Append(rendered, current_file.path)
    /\ tree' = print_as_tree(current_file)
    /\ IF isdir(current_file.directory)
       THEN /\ pc' = "input"
            /\ UNCHANGED raised
       ELSE /\ pc' = "crashed"
            /\ raised' = "FileNotFoundError:iterdir"
    /\ UNCHANGED <<fs, stat, order_by, sessions, File_files, files, current_file,
                   directories_to_ignore, stack, inputs>>

\* input() returns the token; the tree on display has served
Read(choice) ==
    /\ inputs' = Append(inputs, [token |-> choice, path |-> current_file.path])
    /\ tree' = <<>>

\* "d": StateMachine.delete_file
Delete_file ==
    /\ pc = "input"
    /\ Read("d")
    /\ IF exists(current_file.path)
       THEN /\ fs' = remove(fs, current_file.path)
            /\ advance(stack \o <<135, 141>>)
            /\ UNCHANGED raised
       ELSE /\ pc' = "crashed"
            /\ raised' = "FileNotFoundError:remove"
            /\ UNCHANGED <<fs, stack, current_file>>
    /\ UNCHANGED <<stat, order_by, sessions, File_files, files, directories_to_ignore, rendered>>

\* "D": StateMachine.delete_file_directory
Delete_file_directory ==
    /\ pc = "input"
    /\ Read("D")
    /\ IF exists(current_file.directory)
       THEN /\ fs' = rmtree(fs, current_file.directory)
            /\ advance(stack \o <<135, 145>>)
            /\ UNCHANGED raised
       ELSE /\ pc' = "crashed"
            /\ raised' = "FileNotFoundError:rmtree"
            /\ UNCHANGED <<fs, stack, current_file>>
    /\ UNCHANGED <<stat, order_by, sessions, File_files, files, directories_to_ignore, rendered>>

\* A variant of Skip that does what skip_directory does
Skip_as_skip_directory ==
    /\ pc = "input"
    /\ Read("s")
    /\ directories_to_ignore' = Append(directories_to_ignore, current_file.directory)
    /\ advance(stack \o <<135, 148>>)
    /\ UNCHANGED <<fs, stat, order_by, sessions, File_files, files, rendered, raised>>

\* "s": StateMachine.skip
Skip ==
    /\ pc = "input"
    /\ Read("s")
    /\ advance(stack \o <<135, 148>>)
    /\ UNCHANGED <<fs, stat, order_by, sessions, File_files, files, directories_to_ignore,
                   rendered, raised>>

\* A variant of Skip_directory that appends the path of the file
Skip_directory_path ==
    /\ pc = "input"
    /\ Read("S")
    /\ directories_to_ignore' = Append(directories_to_ignore, current_file.path)
    /\ advance(stack \o <<135, 152>>)
    /\ UNCHANGED <<fs, stat, order_by, sessions, File_files, files, rendered, raised>>

\* "S": StateMachine.skip_directory
Skip_directory ==
    /\ pc = "input"
    /\ Read("S")
    /\ directories_to_ignore' = Append(directories_to_ignore, current_file.directory)
    /\ advance(stack \o <<135, 152>>)
    /\ UNCHANGED <<fs, stat, order_by, sessions, File_files, files, rendered, raised>>

\* "?": StateMachine.print_help
Print_help ==
    /\ pc = "input"
    /\ Reprompts < MaxReprompts
    /\ Read("?")
    /\ pc' = "transition"
    /\ stack' = stack \o <<135, 173>>
    /\ UNCHANGED <<fs, stat, order_by, sessions, File_files, files, current_file,
                   directories_to_ignore, rendered, raised>>

\* A variant of Reprompt that advances instead of calling transition
Reprompt_advancing ==
    /\ pc = "input"
    /\ Reprompts < MaxReprompts
    /\ \E choice \in Tokens \ ActionKeys : Read(choice)
    /\ advance(Append(stack, 137))
    /\ UNCHANGED <<fs, stat, order_by, sessions, File_files, files,
                   directories_to_ignore, rendered, raised>>

\* any other token: transition, line 137
Reprompt ==
    /\ pc = "input"
    /\ Reprompts < MaxReprompts
    /\ \E choice \in Tokens \ ActionKeys : Read(choice)
    /\ pc' = "transition"
    /\ stack' = Append(stack, 137)
    /\ UNCHANGED <<fs, stat, order_by, sessions, File_files, files, current_file,
                   directories_to_ignore, rendered, raised>>

Next ==
    \/ Main
    \/ TransitionExists
    \/ TransitionIgnored
    \/ Prompt
    \/ Delete_file
    \/ Delete_file_directory
    \/ Skip
    \/ Skip_directory
    \/ Print_help
    \/ Reprompt

Spec == Init /\ [][Next]_vars

\* ----------------------------------------------------- the scan alone
\* The process start of Init, on disks that may also hold the dot file, and
\* main up to the construction of the StateMachine.
InitScan ==
    /\ order_by \in {"age", "size"}
    /\ \E present \in SUBSET (AllFiles \cup {FileH}) :
          /\ fs = {Root} \cup present \cup UNION {Ancestors(p) : p \in present}
          /\ stat \in [present -> [size : 0..MaxSize, age : 0..MaxAge]]
          /\ \A p \in present : IF order_by = "age" THEN stat[p].size = 0
                                                     ELSE stat[p].age = 0
    /\ sessions = 0
    /\ File_files = <<>>
    /\ files = <<>>
    /\ current_file = NoFile
    /\ directories_to_ignore = <<>>
    /\ pc = "main"
    /\ stack = <<>>
    /\ rendered = <<>>
    /\ tree = <<>>
    /\ inputs = <<>>
    /\ raised = "none"

SpecScan == InitScan /\ [][Main]_vars

\* ------------------------------------------------- a second StateMachine
\* StateMachine(files).transition() once more in the same process, after
\* the transition of the session before has returned.  __init__ sets files,
\* current_file and actions on the new object; directories_to_ignore is an
\* attribute of the class (line 110) and append (line 151) changes that
\* one list in place, so the new object reads the list of the old one.
NewSession ==
    /\ pc = "done"
    /\ sessions < MaxSessions
    /\ sessions' = sessions + 1
    /\ current_file' = files[1]
    /\ pc' = "transition"
    /\ stack' = <<261>>
    /\ UNCHANGED <<fs, stat, order_by, tree, File_files, files, directories_to_ignore,
                   rendered, inputs, raised>>

\* Disks with at most the two files of /r/x
InitSessions == Init /\ fs \subseteq {Root, DirX, FileA, FileB}

NextSessions == Next \/ NewSession

SpecSessions == InitSessions /\ [][NextSessions]_vars

\* ------------------------------------------------------------ properties
Last(seq) == seq[Len(seq)]

\* The step in which input() returns the token t
TokenRead(t) ==
    /\ pc = "input"
    /\ Len(inputs') = Len(inputs) + 1
    /\ inputs'[Len(inputs')].token = t

\* rendered[k] is the display that inputs[k] answers; the displays after the
\* k-th token are rendered[j] for j > k.

\* C1: after a D on record r, no other record whose path lies in r.directory
\* or below it is ever handed to the renderer or prompted for.
C1_CascadeSkipped ==
    \A i \in 1..Len(inputs) : \A j \in 1..Len(rendered) :
        (inputs[i].token = "D" /\ j > i /\ rendered[j] # inputs[i].path)
            => ~IsPrefix(dirname(inputs[i].path), rendered[j])

\* C2: after an S on record r, no other record whose directory is
\* r.directory is ever handed to the renderer or prompted for.
C2_IgnoredNeverPrompted ==
    \A i \in 1..Len(inputs) : \A j \in 1..Len(rendered) :
        (inputs[i].token = "S" /\ j > i /\ rendered[j] # inputs[i].path)
            => dirname(rendered[j]) # dirname(inputs[i].path)

\* C3: once a resolving token (d, D, s, S) has been applied to a record, the
\* record is never displayed again, so it gets at most one resolving token.
C3_OneDecisionPerRecord ==
    \A i \in 1..Len(inputs) : \A j \in 1..Len(rendered) :
        (inputs[i].token \in Resolving /\ j > i) => rendered[j] # inputs[i].path

\* C4: a failing deletion (os.remove or shutil.rmtree raising) never ends
\* the process.
C4_DeletionFailureNonFatal ==
    raised \notin {"FileNotFoundError:remove", "FileNotFoundError:rmtree"}

\* C5: over a non-empty catalog, a user who answers every prompt with one of
\* d, D, s, S never sees the session stop with an unhandled error.
C5_NoUnhandledError ==
    (files # <<>> /\ \A i \in 1..Len(inputs) : inputs[i].token \in Resolving)
        => pc # "crashed"

\* C6: a d removes exactly the file of the record on display: afterwards the
\* path is gone, every other path (the directory included) is as before, and
\* directories_to_ignore is unchanged.
C6_DeleteFileFrame ==
    [][TokenRead("d") =>
          /\ current_file.path = Last(rendered)
          /\ Last(rendered) \notin fs'
          /\ \A q \in AllFiles \cup AllDirs :
                q # Last(rendered) => ((q \in fs') <=> (q \in fs))
          /\ directories_to_ignore' = directories_to_ignore]_vars

\* A d has removed a file that existed, and its directory is still there.
C6_Witness ==
    \E i \in 1..Len(inputs) :
        /\ inputs[i].token = "d"
        /\ inputs[i].path \notin fs
        /\ dirname(inputs[i].path) \in fs
        /\ raised = "none"

\* C7: a D removes the directory of the record on display and all below it
\* and nothing else: afterwards no path at or below the directory exists,
\* every path outside it is as before, directories_to_ignore is unchanged.
C7_DeleteDirectoryFrame ==
    [][TokenRead("D") =>
          /\ current_file.path = Last(rendered)
          /\ \A q \in AllFiles \cup AllDirs :
                IF IsPrefix(current_file.directory, q)
                THEN q \notin fs'
                ELSE (q \in fs') <=> (q \in fs)
          /\ directories_to_ignore' = directories_to_ignore]_vars

\* A D on a record of /r/x has removed the subdirectory and its file too,
\* and the file of /r/z is still there.
C7_Witness ==
    \E i \in 1..Len(inputs) :
        /\ inputs[i].token = "D"
        /\ dirname(inputs[i].path) = DirX
        /\ \E k \in 1..Len(files) : files[k].path = FileC
        /\ fs \cap {DirX, DirSub, FileC} = {}
        /\ FileE \in fs

\* The last token read was no resolving one and its display is still due.
Pending ==
    /\ inputs # <<>>
    /\ Len(rendered) = Len(inputs)
    /\ Last(inputs).token \notin Resolving

\* C8: from the reading of a token outside d, D, s, S up to and including the
\* next display, the cursor, the disk and directories_to_ignore do not
\* change, the process neither ends nor fails, and that next display is of
\* the record the token was read for.
C8_NoAdvanceOnOtherToken ==
    [][(Pending \/ Pending') =>
          /\ current_file' = current_file
          /\ fs' = fs
          /\ directories_to_ignore' = directories_to_ignore
          /\ pc' \notin {"done", "crashed"}
          /\ Len(rendered') > Len(rendered) =>
                (Last(rendered') = Last(inputs).path /\ pc' = "input")]_vars

\* A ? or an unknown token, read for a record that is not the last of the
\* catalog, has been followed by the display of the same record.
C8_Witness ==
    /\ pc = "input"
    /\ \E i \in 1..Len(inputs) :
          /\ inputs[i].token \in {"?", "dd"}
          /\ Len(rendered) > i
          /\ rendered[i + 1] = inputs[i].path
          /\ rendered[i] = inputs[i].path
          /\ index(files, current_file) < Len(files)

\* C9: an s changes neither the disk nor directories_to_ignore nor the
\* catalog; it moves the cursor to the next record, if there is one.
C9_SkipFrame ==
    [][TokenRead("s") =>
          /\ fs' = fs
          /\ stat' = stat
          /\ directories_to_ignore' = directories_to_ignore
          /\ files' = files
          /\ LET i == index(files, current_file)
             IN  IF i < Len(files) THEN current_file' = files[i + 1]
                 ELSE current_file' = current_file]_vars

\* An s has moved the cursor from the first record to the second one, with
\* the file of the first still on disk.
C9_Witness ==
    /\ Len(inputs) = 1
    /\ inputs[1].token = "s"
    /\ Len(files) >= 2
    /\ inputs[1].path = files[1].path
    /\ current_file = files[2]
    /\ files[1].path \in fs

\* C10: the catalog is a permutation of the scanned records, non-decreasing
\* in size_in_bytes when ordered by size and non-increasing in age_in_days
\* when ordered by age.
C10_Ordered ==
    pc # "main" =>
        /\ Len(files) = Len(File_files)
        /\ Range(files) = Range(File_files)
        /\ \A i \in 1..Len(files) : \A j \in 1..Len(files) :
              i < j =>
                 /\ files[i] # files[j]
                 /\ order_by = "size" => files[i].size_in_bytes <= files[j].size_in_bytes
                 /\ order_by = "age" => files[i].age_in_days >= files[j].age_in_days

\* Scanned as [A, B] with A the bigger file, ordered by size: the catalog is
\* [B, A].
C10_Witness ==
    /\ pc # "main"
    /\ order_by = "size"
    /\ Len(File_files) = 2
    /\ File_files[1].size_in_bytes > File_files[2].size_in_bytes
    /\ files = <<File_files[2], File_files[1]>>

\* C11: both orderings are stable: two records of the catalog with equal
\* sort key stand in the order in which the scan produced them.
C11_Stable ==
    pc # "main" =>
        LET scanned == [k \in 1..Len(files) |-> index(File_files, files[k])]
        IN  \A i \in 1..Len(files) : \A j \in (i + 1)..Len(files) :
                (/\ order_by = "size" => files[i].size_in_bytes = files[j].size_in_bytes
                 /\ order_by = "age" => files[i].age_in_days = files[j].age_in_days)
                    => scanned[i] < scanned[j]

\* Ordered by age, three records: the first and the last scanned have equal
\* age and keep their scan order, the one scanned between them is older and
\* comes first.
C11_Witness ==
    /\ pc # "main"
    /\ order_by = "age"
    /\ Len(File_files) = 3
    /\ File_files[1].age_in_days = File_files[3].age_in_days
    /\ File_files[2].age_in_days > File_files[1].age_in_days
    /\ files = <<File_files[2], File_files[1], File_files[3]>>

\* C12: over an empty catalog the construction of the StateMachine fails
\* with EmptyCatalogError, before any display, any prompt and any change of
\* the disk.
C12_EmptyCatalogError ==
    (pc # "main" /\ files = <<>>) =>
        /\ pc = "crashed"
        /\ raised = "EmptyCatalogError"
        /\ rendered = <<>>
        /\ inputs = <<>>

\* C13: directories_to_ignore never loses an entry; the one step that adds
\* to it is the reading of S, which appends the directory of the record on
\* display and leaves the disk alone.
C13_IgnoredGrowsOnlyByS ==
    [][/\ TokenRead("S") =>
             /\ current_file.path = Last(rendered)
             /\ directories_to_ignore' =
                   Append(directories_to_ignore, current_file.directory)
             /\ fs' = fs
       /\ ~TokenRead("S") => directories_to_ignore' = directories_to_ignore]_vars

\* An S on a record of /r/x has put /r/x, and nothing else, on the list, and
\* a later d has left the list as it was.
C13_Witness ==
    /\ directories_to_ignore = <<DirX>>
    /\ \E i \in 1..Len(inputs) : \E j \in 1..Len(inputs) :
          /\ i < j
          /\ inputs[i].token = "S"
          /\ dirname(inputs[i].path) = DirX
          /\ inputs[j].token = "d"

\* C14: a StateMachine constructed after another one of the same process
\* starts with an empty directories_to_ignore.
C14_FreshIgnoredPerSession ==
    [][(pc = "done" /\ sessions' > sessions) => directories_to_ignore' = <<>>]_vars

\* The position in the catalog of the record with path p
PathIndex(p) == CHOOSE k \in 1..Len(files) : files[k].path = p

\* C15: once built, the catalog is never changed, the cursor never moves
\* back, and the displays follow the catalog: a record is never displayed
\* after a record that stands behind it.
C15_CatalogOrder ==
    [][(pc # "main" /\ files # <<>>) =>
          /\ files' = files
          /\ index(files, current_file') >= index(files, current_file)
          /\ LET place == [a \in 1..Len(rendered') |-> PathIndex(rendered'[a])]
             IN  \A a \in 1..(Len(rendered') - 1) : place[a] <= place[a + 1]]_vars

\* The first two records of the catalog have been displayed, in that order,
\* and the cursor is on the second.
C15_Witness ==
    /\ Len(files) >= 2
    /\ Len(rendered) = 2
    /\ rendered = <<files[1].path, files[2].path>>
    /\ current_file = files[2]
    /\ pc = "input"

\* C16: the scan yields exactly one record for every regular file on the
\* disk below the root, whatever its name, and none for a directory.
C16_EveryRegularFileScanned ==
    pc # "main" =>
        /\ \A p \in fs \ AllDirs :
              Cardinality({i \in 1..Len(File_files) : File_files[i].path = p}) = 1
        /\ \A i \in 1..Len(File_files) : File_files[i].path \notin AllDirs

\* C17: the calls the session holds do not pile up: whenever it waits for a
\* token, the suspended calls are those of its first prompt (the call of
\* transition by main), however many tokens it has read and however many
\* records it has resolved.
C17_DepthDoesNotGrow ==
    pc = "input" => Len(stack) = 1

\* The place of the name of an entry among its siblings, case ignored
CaseInsensitivePlace(q) == StrRank[lower[q[Len(q)]]]

\* The entries of the disk in the directory of q, q included
Siblings(q) == {q2 \in fs : Len(q2) = Len(q) /\ SubSeq(q2, 1, Len(q2) - 1) = SubSeq(q, 1, Len(q) - 1)}

\* q is the last of its siblings in the case-insensitive order
LastSibling(q) == \A q2 \in Siblings(q) : CaseInsensitivePlace(q2) <= CaseInsensitivePlace(q)

\* The depth of the i-th line of the tree below the rendered directory
LineDepth(i) == Len(tree[i].path) - Len(tree[1].path)

\* The pieces of the i-th line after its glyphs
LineName(i) ==
    IF i = 1 THEN tree[i].line
    ELSE SubSeq(tree[i].line, LineDepth(i) + 2, Len(tree[i].line))

\* C18: the tree shown at a prompt is a depth-first pre-order walk of the
\* record's directory: the directory comes first, every entry under it
\* appears exactly once and after its parent, the whole subtree of an entry
\* comes before its next sibling, and the siblings come in the
\* case-insensitive order of their paths.
C18_PreOrderWalk ==
    pc = "input" =>
        LET d == current_file.directory
            under == {q \in fs : IsPrefix(d, q)}
        IN  /\ tree # <<>>
            /\ tree[1].path = d
            /\ {tree[i].path : i \in 1..Len(tree)} = under
            /\ Len(tree) = Cardinality(under)
            /\ \A i \in 2..Len(tree) : \E j \in 1..(i - 1) :
                   tree[j].path = SubSeq(tree[i].path, 1, Len(tree[i].path) - 1)
            /\ \A i, j, k \in 1..Len(tree) :
                   (i < j /\ j < k /\ IsPrefix(tree[i].path, tree[k].path))
                       => IsPrefix(tree[i].path, tree[j].path)
            /\ \A i, j \in 2..Len(tree) :
                   (i < j /\ tree[j].path \in Siblings(tree[i].path))
                       => CaseInsensitivePlace(tree[i].path) < CaseInsensitivePlace(tree[j].path)

\* The tree of /r/x with a, T and sub/c in it: a, then sub with c, then T
C18_Witness ==
    /\ pc = "input"
    /\ current_file.path = FileA
    /\ Len(tree) = 5
    /\ tree[2].path = FileA
    /\ tree[3].path = DirSub
    /\ tree[4].path = FileC
    /\ tree[5].path = FileB

\* C19: on every line below the first, the connector is the last-child glyph
\* exactly when the entry is the last of its sorted siblings and the
\* middle-child glyph otherwise, and before it stands one glyph for each
\* ancestor below the rendered directory, outermost first: the bar when that
\* ancestor is not the last of its siblings, the blank when it is.
C19_Connectors ==
    pc = "input" =>
        \A i \in 2..Len(tree) :
            LET p == tree[i].path
                line == tree[i].line
                depth == LineDepth(i)
            IN  /\ Len(line) >= depth + 2
                /\ line[depth] = IF LastSibling(p) THEN display_filename_prefix_last
                                                   ELSE display_filename_prefix_middle
                /\ line[depth + 1] = " "
                /\ \A k \in 1..(depth - 1) :
                       line[k] = IF LastSibling(SubSeq(p, 1, Len(tree[1].path) + k))
                                 THEN display_parent_prefix_middle
                                 ELSE display_parent_prefix_last

\* The tree of /r/x where sub is followed by T: sub is not the last of its
\* siblings, and the line of c under it starts with the bar
C19_Witness ==
    /\ pc = "input"
    /\ current_file.directory = DirX
    /\ FileB \in fs
    /\ \E i \in 2..Len(tree) :
           /\ tree[i].path = FileC
           /\ tree[i].line = <<display_parent_prefix_last, display_filename_prefix_last, " ", "c">>

\* The i-th line carries the highlight
Highlighted(i) == LineName(i)[1] = OKGREEN

\* C20: in the tree shown at a prompt exactly one entry carries the
\* highlight, the entry whose path is the path of the record; every other
\* file shows its plain name, and every directory its name followed by the
\* separator.
C20_OneHighlight ==
    pc = "input" =>
        /\ Cardinality({i \in 1..Len(tree) : Highlighted(i)}) = 1
        /\ \A i \in 1..Len(tree) :
               LET p == tree[i].path
               IN  /\ Highlighted(i) <=> p = current_file.path
                   /\ Highlighted(i) => LineName(i) = <<OKGREEN, p[Len(p)], ENDC>>
                   /\ (~Highlighted(i) /\ p \in AllDirs) => LineName(i) = <<p[Len(p)], "/">>
                   /\ (~Highlighted(i) /\ p \notin AllDirs) => LineName(i) = <<p[Len(p)]>>

====
